---- MODULE Spec2Model ----
(***************************************************************************)
(* A model of lipbalm, a builder of ANSI-styled terminal text.             *)
(*                                                                         *)
(*   colors.rs  Color, Color::to_ansi, hex_to_rgb                          *)
(*   styles.rs  Styles::to_ansi                                            *)
(*   lib.rs     Lipbalm: new, the eleven setters, apply_foreground,        *)
(*              apply_background, render                                   *)
(*                                                                         *)
(* A Rust string is a sequence of characters, each a one-character TLA+    *)
(* string (ESC stands for the byte 0x1B).  A call that may panic returns a *)
(* record [panicked, val].                                                 *)
(***************************************************************************)
EXTENDS Integers, Sequences, FiniteSets, TLC

VARIABLES
    self,        \* the Lipbalm value being built (lib.rs:28-42)
    last,        \* history: per setter, the argument of its latest call
    lastSetter,  \* history: the setter called most recently
    calls,       \* history: number of setter calls so far
    pc,          \* "building" | "rendered" | "panicked"
    out,         \* what the latest render call returned
    text,        \* the argument of the latest render call
    color,       \* SpecColor, SpecTwin: the Color under test
    frag,        \* SpecColor: what color.to_ansi() returned
    rgb,         \* SpecTwin: the Rgb colour that `color` (a Hex) encodes
    twin,        \* SpecTwin: the same builder with rgb where self has color
    out2         \* SpecTwin: what the latest render of twin returned

vars == <<self, last, lastSetter, calls, pc, out, text, color, frag, rgb, twin, out2>>

---------------------------------------------------------------------------
(* Bounds of the model.                                                    *)

\* Setter calls per run of Spec.
MaxCalls == 3
\* How many of ByteOrder's bytes the colour specifications draw from.
NumByteSamples == 6
\* Longest Hex payload enumerated over the whole PayloadAlphabet.
MaxPayloadLen == 3

---------------------------------------------------------------------------
(* Characters and strings.                                                 *)

ESC == "ESC"

\* A character of two UTF-8 bytes, for payloads that are not ASCII.
EAcute == "U+00E9"

\* char::len_utf8
Utf8Len(ch) == IF ch = EAcute THEN 2 ELSE 1

DecDigits == <<"0", "1", "2", "3", "4", "5", "6", "7", "8", "9">>

RECURSIVE ToDec(_)
\* format!("{}", n) and n.to_string() of an unsigned integer
ToDec(n) ==
    IF n < 10 THEN <<DecDigits[n + 1]>>
    ELSE ToDec(n \div 10) \o <<DecDigits[(n % 10) + 1]>>

\* char::to_digit(radix): the digit's value, -1 for None
ToDigit(ch, radix) ==
    LET v == CASE ch = "0" -> 0  [] ch = "1" -> 1  [] ch = "2" -> 2  [] ch = "3" -> 3
               [] ch = "4" -> 4  [] ch = "5" -> 5  [] ch = "6" -> 6  [] ch = "7" -> 7
               [] ch = "8" -> 8  [] ch = "9" -> 9
               [] ch \in {"a", "A"} -> 10  [] ch \in {"b", "B"} -> 11
               [] ch \in {"c", "C"} -> 12  [] ch \in {"d", "D"} -> 13
               [] ch \in {"e", "E"} -> 14  [] ch \in {"f", "F"} -> 15
               [] ch \in {"g", "G"} -> 16
               [] OTHER -> -1
    IN IF v >= 0 /\ v < radix THEN v ELSE -1

Ok(v) == [panicked |-> FALSE, val |-> v]
Panic == [panicked |-> TRUE, val |-> <<>>]

ParseErr == [ok |-> FALSE, hi |-> 0, lo |-> 0]
ParseOk(hi, lo) == [ok |-> TRUE, hi |-> hi, lo |-> lo]

\* Widths of the integer types parsed into.
U32Bits == 32
U8Bits == 8

\* An unsigned integer of up to 32 bits is kept as two 16-bit halves, hi and lo
\* (its value is hi * 65536 + lo), so that no intermediate result leaves the
\* range of the integers TLC computes with.  Fits: the value is below 2^bits.
Fits(hi, lo, bits) ==
    IF bits >= 16 THEN hi < 2 ^ (bits - 16) ELSE hi = 0 /\ lo < 2 ^ bits

RECURSIVE ParseDigits(_, _, _, _, _)
\* One turn of the digit loop of from_str_radix, d the digit's value:
\* checked_mul by the radix, then checked_add of the digit, an error as soon
\* as the type's width is exceeded.
ParseStep(rest, radix, bits, hi, lo, d) ==
    IF d < 0 THEN ParseErr
    ELSE IF ~Fits(hi * radix + ((lo * radix + d) \div 65536),
                  (lo * radix + d) % 65536, bits) THEN ParseErr
    ELSE ParseDigits(rest, radix, bits, hi * radix + ((lo * radix + d) \div 65536),
                     (lo * radix + d) % 65536)

\* The digit loop of from_str_radix.
ParseDigits(digits, radix, bits, hi, lo) ==
    IF digits = <<>> THEN ParseOk(hi, lo)
    ELSE ParseStep(Tail(digits), radix, bits, hi, lo, ToDigit(Head(digits), radix))

\* from_str_radix of an unsigned type of the given width: "" is an error, so is
\* a lone sign, one leading "+" is accepted, "-" is an invalid digit.
FromStrRadix(src, radix, bits) ==
    IF src = <<>> THEN ParseErr
    ELSE IF Len(src) = 1 /\ src[1] \in {"+", "-"} THEN ParseErr
    ELSE ParseDigits(IF src[1] = "+" THEN Tail(src) ELSE src, radix, bits, 0, 0)

\* &hex[1..]: a byte index; panics past the end and inside a character.
SliceFrom1(s) ==
    IF s = <<>> THEN Panic
    ELSE IF Utf8Len(s[1]) # 1 THEN Panic
    ELSE Ok(Tail(s))

---------------------------------------------------------------------------
(* colors.rs                                                               *)

NamedOrder == <<"Black", "Red", "Green", "Yellow", "Blue", "Magenta", "Cyan", "White",
                "BrightBlack", "BrightRed", "BrightGreen", "BrightYellow", "BrightBlue",
                "BrightMagenta", "BrightCyan", "BrightWhite">>

NamedTags == {NamedOrder[i] : i \in 1..Len(NamedOrder)}

Named(t) == [tag |-> t, n |-> 0, r |-> 0, g |-> 0, b |-> 0, s |-> <<>>]
Reset == Named("Reset")
C256(c) == [tag |-> "C256", n |-> c, r |-> 0, g |-> 0, b |-> 0, s |-> <<>>]
Rgb(r, g, b) == [tag |-> "Rgb", n |-> 0, r |-> r, g |-> g, b |-> b, s |-> <<>>]
Hex(s) == [tag |-> "Hex", n |-> 0, r |-> 0, g |-> 0, b |-> 0, s |-> s]

\* .unwrap_or(0)
unwrap_or_0(parsed) == IF parsed.ok THEN parsed ELSE ParseOk(0, 0)

\* A slip in channels: the shifts of red and blue exchanged.
channels_swapped(h) ==
    [panicked |-> FALSE, r |-> h.lo % 256, g |-> (h.lo \div 256) % 256, b |-> h.hi % 256]

\* The channels of hex_to_rgb: (hex >> 16) & 0xFF, (hex >> 8) & 0xFF, hex & 0xFF.
channels(h) ==
    [panicked |-> FALSE, r |-> h.hi % 256, g |-> (h.lo \div 256) % 256, b |-> h.lo % 256]

\* hex_to_rgb, from the slice &hex[1..] on.
hex_tail_to_rgb(tail) ==
    IF tail.panicked THEN [panicked |-> TRUE, r |-> 0, g |-> 0, b |-> 0]
    ELSE channels(unwrap_or_0(FromStrRadix(tail.val, 16, U32Bits)))

\* hex_to_rgb
hex_to_rgb(hex) == hex_tail_to_rgb(SliceFrom1(hex))

\* A slip in RgbFragment: the foreground selector written into the fragment.
RgbFragment_prefixed(r, g, b) ==
    <<"3", "8", ";", "2", ";">> \o ToDec(r) \o <<";">> \o ToDec(g) \o <<";">> \o ToDec(b)

\* format!("2;{};{};{}", r, g, b)
RgbFragment(r, g, b) ==
    <<"2", ";">> \o ToDec(r) \o <<";">> \o ToDec(g) \o <<";">> \o ToDec(b)

\* The Hex arm of to_ansi, t what hex_to_rgb returned.
TripleFragment(t) == IF t.panicked THEN Panic ELSE Ok(RgbFragment(t.r, t.g, t.b))

\* Color::to_ansi
to_ansi(c) ==
    CASE c.tag = "Reset" -> Ok(<<"0">>)
      [] c.tag = "Black" -> Ok(<<"3", "0">>)
      [] c.tag = "Red" -> Ok(<<"3", "1">>)
      [] c.tag = "Green" -> Ok(<<"3", "2">>)
      [] c.tag = "Yellow" -> Ok(<<"3", "3">>)
      [] c.tag = "Blue" -> Ok(<<"3", "4">>)
      [] c.tag = "Magenta" -> Ok(<<"3", "5">>)
      [] c.tag = "Cyan" -> Ok(<<"3", "6">>)
      [] c.tag = "White" -> Ok(<<"3", "7">>)
      [] c.tag = "BrightBlack" -> Ok(<<"9", "0">>)
      [] c.tag = "BrightRed" -> Ok(<<"9", "1">>)
      [] c.tag = "BrightGreen" -> Ok(<<"9", "2">>)
      [] c.tag = "BrightYellow" -> Ok(<<"9", "3">>)
      [] c.tag = "BrightBlue" -> Ok(<<"9", "4">>)
      [] c.tag = "BrightMagenta" -> Ok(<<"9", "5">>)
      [] c.tag = "BrightCyan" -> Ok(<<"9", "6">>)
      [] c.tag = "BrightWhite" -> Ok(<<"9", "7">>)
      [] c.tag = "C256" -> Ok(<<"5", ";">> \o ToDec(c.n))
      [] c.tag = "Rgb" -> Ok(RgbFragment(c.r, c.g, c.b))
      [] c.tag = "Hex" -> TripleFragment(hex_to_rgb(c.s))

\* Display for Color, through Debug: value.to_string() is to_ansi's text.
color_to_string(c) == to_ansi(c)

---------------------------------------------------------------------------
(* styles.rs                                                               *)

\* Styles::to_ansi
styles_to_ansi(style) ==
    CASE style = "Reset" -> <<"0">>
      [] style = "Bold" -> <<"1">>
      [] style = "Dim" -> <<"2">>
      [] style = "Italic" -> <<"3">>
      [] style = "Underline" -> <<"4">>
      [] style = "Blink" -> <<"5">>
      [] style = "Reverse" -> <<"7">>
      [] style = "Hidden" -> <<"8">>
      [] style = "Strikethrough" -> <<"9">>

---------------------------------------------------------------------------
(* lib.rs: the builder                                                     *)

NoColor == [some |-> FALSE, val |-> Reset]
SomeColor(c) == [some |-> TRUE, val |-> c]
NoLink == [some |-> FALSE, val |-> <<>>]
SomeLink(l) == [some |-> TRUE, val |-> l]

FlagFields == {"bold", "dim", "italic", "underline", "blink", "reverse", "hidden",
               "strikethrough"}
Fields == {"foreground", "background", "link"} \cup FlagFields

\* Lipbalm::new
new ==
    [foreground |-> NoColor, background |-> NoColor,
     bold |-> FALSE, dim |-> FALSE, italic |-> FALSE, underline |-> FALSE,
     blink |-> FALSE, reverse |-> FALSE, hidden |-> FALSE, strikethrough |-> FALSE,
     link |-> NoLink]

\* A slip in bold: a flag once set stays set.
bold_sticky(s, yes) == [s EXCEPT !.bold = s.bold \/ yes]

\* A slip in foreground: the background is reset on the way.
foreground_clears_background(s, c) ==
    [s EXCEPT !.foreground = SomeColor(c), !.background = NoColor]

\* A slip in link: the empty target taken for no target.
link_empty_is_none(s, l) ==
    [s EXCEPT !.link = IF l = <<>> THEN NoLink ELSE SomeLink(l)]

bold(s, yes) == [s EXCEPT !.bold = yes]
dim(s, yes) == [s EXCEPT !.dim = yes]
italic(s, yes) == [s EXCEPT !.italic = yes]
underline(s, yes) == [s EXCEPT !.underline = yes]
blink(s, yes) == [s EXCEPT !.blink = yes]
reverse(s, yes) == [s EXCEPT !.reverse = yes]
hidden(s, yes) == [s EXCEPT !.hidden = yes]
strikethrough(s, yes) == [s EXCEPT !.strikethrough = yes]
foreground(s, c) == [s EXCEPT !.foreground = SomeColor(c)]
background(s, c) == [s EXCEPT !.background = SomeColor(c)]
link(s, l) == [s EXCEPT !.link = SomeLink(l)]

ExtendedTags == {"Rgb", "C256", "Hex"}

\* The match of apply_foreground, ansi what value.to_ansi() returned.
foreground_match(value, ansi) ==
    IF ansi.panicked THEN Panic
    ELSE IF value.tag \in ExtendedTags THEN Ok(<<"3", "8", ";">> \o ansi.val)
    ELSE ansi

\* Lipbalm::apply_foreground
apply_foreground(s) ==
    IF ~s.foreground.some THEN Panic
    ELSE foreground_match(s.foreground.val, to_ansi(s.foreground.val))

\* value.to_string().parse::<u8>()
parse_u8(str) == IF str.panicked THEN ParseErr ELSE FromStrRadix(str.val, 10, U8Bits)

\* A slip in plus_10: the addition left out.
plus_10_dropped(parsed) ==
    IF ~parsed.ok THEN Panic ELSE Ok(ToDec(parsed.lo))

\* .unwrap() + 10, then nr.to_string(); the u8 addition panics on overflow
\* (overflow checks on, as in the test build), which no named colour reaches.
plus_10(parsed) ==
    IF ~parsed.ok THEN Panic
    ELSE IF ~Fits(0, parsed.lo + 10, U8Bits) THEN Panic
    ELSE Ok(ToDec(parsed.lo + 10))

\* The match of apply_background, ansi what value.to_ansi() returned.
background_match(value, ansi) ==
    IF ansi.panicked THEN Panic
    ELSE IF value.tag = "Reset" THEN ansi
    ELSE IF value.tag \in ExtendedTags THEN Ok(<<"4", "8", ";">> \o ansi.val)
    ELSE plus_10(parse_u8(color_to_string(value)))

\* self.background.unwrap_or(Color::Reset)
background_or_reset(s) == IF s.background.some THEN s.background.val ELSE Reset

\* Lipbalm::apply_background
apply_background(s) == background_match(background_or_reset(s), to_ansi(background_or_reset(s)))

\* A slip in pushed: the background pushed before the foreground.
pushed_background_first(s) ==
    (IF s.background.some THEN <<apply_background(s)>> ELSE <<>>)
    \o (IF s.foreground.some THEN <<apply_foreground(s)>> ELSE <<>>)
    \o (IF s.bold THEN <<Ok(styles_to_ansi("Bold"))>> ELSE <<>>)
    \o (IF s.dim THEN <<Ok(styles_to_ansi("Dim"))>> ELSE <<>>)
    \o (IF s.italic THEN <<Ok(styles_to_ansi("Italic"))>> ELSE <<>>)
    \o (IF s.underline THEN <<Ok(styles_to_ansi("Underline"))>> ELSE <<>>)
    \o (IF s.blink THEN <<Ok(styles_to_ansi("Blink"))>> ELSE <<>>)
    \o (IF s.reverse THEN <<Ok(styles_to_ansi("Reverse"))>> ELSE <<>>)
    \o (IF s.hidden THEN <<Ok(styles_to_ansi("Hidden"))>> ELSE <<>>)
    \o (IF s.strikethrough THEN <<Ok(styles_to_ansi("Strikethrough"))>> ELSE <<>>)

\* The pushes of render, in program order: a sequence of results.
pushed(s) ==
    (IF s.foreground.some THEN <<apply_foreground(s)>> ELSE <<>>)
    \o (IF s.background.some THEN <<apply_background(s)>> ELSE <<>>)
    \o (IF s.bold THEN <<Ok(styles_to_ansi("Bold"))>> ELSE <<>>)
    \o (IF s.dim THEN <<Ok(styles_to_ansi("Dim"))>> ELSE <<>>)
    \o (IF s.italic THEN <<Ok(styles_to_ansi("Italic"))>> ELSE <<>>)
    \o (IF s.underline THEN <<Ok(styles_to_ansi("Underline"))>> ELSE <<>>)
    \o (IF s.blink THEN <<Ok(styles_to_ansi("Blink"))>> ELSE <<>>)
    \o (IF s.reverse THEN <<Ok(styles_to_ansi("Reverse"))>> ELSE <<>>)
    \o (IF s.hidden THEN <<Ok(styles_to_ansi("Hidden"))>> ELSE <<>>)
    \o (IF s.strikethrough THEN <<Ok(styles_to_ansi("Strikethrough"))>> ELSE <<>>)

NonEmpty(x) == x # <<>>

\* .filter(|s| !s.is_empty())
filter_non_empty(v) == SelectSeq(v, NonEmpty)

RECURSIVE join_trailing(_, _)
\* A slip in join: the separator written after every element.
join_trailing(v, sep) ==
    IF v = <<>> THEN <<>> ELSE v[1] \o sep \o join_trailing(Tail(v), sep)

RECURSIVE join(_, _)
\* [&str]::join
join(v, sep) ==
    IF v = <<>> THEN <<>>
    ELSE IF Len(v) = 1 THEN v[1]
    ELSE v[1] \o sep \o join(Tail(v), sep)

\* format!("\x1b[{}m{}\x1b[0m", params, text)
sgr(params, t) == <<ESC, "[">> \o params \o <<"m">> \o t \o <<ESC, "[", "0", "m">>

\* format!("\x1b]8;;{}\x1b\\{}\x1b]8;;\x1b\\", link, result)
osc8(l, result) ==
    <<ESC, "]", "8", ";", ";">> \o l \o <<ESC, "\\">> \o result
    \o <<ESC, "]", "8", ";", ";", ESC, "\\">>

\* The end of render: the link wrapper around the SGR result.
wrap_link(s, result) == IF s.link.some THEN Ok(osc8(s.link.val, result)) ELSE Ok(result)

\* render from its pushes ps on: a panic in one of them, else filter, join, format.
render_pushed(s, t, ps) ==
    IF \E i \in 1..Len(ps) : ps[i].panicked THEN Panic
    ELSE wrap_link(s, sgr(join(filter_non_empty([i \in 1..Len(ps) |-> ps[i].val]),
                               <<";">>), t))

\* Lipbalm::render
render(s, t) == render_pushed(s, t, pushed(s))

---------------------------------------------------------------------------
(* The builder's life: any setter calls in any order, render at any time.  *)

NoFlag == [some |-> FALSE, val |-> FALSE]
SomeFlag(yes) == [some |-> TRUE, val |-> yes]

NoOutput == Ok(<<>>)

\* Colours the callers of Spec pass.
ColorInputs ==
    {Reset, Named("Red"), Named("Green"), Named("BrightWhite"), C256(1), Rgb(255, 0, 0),
     Hex(<<"#", "f", "f", "0", "0", "0", "0">>), Hex(<<>>)}

LinkInputs == {<<>>, <<"u">>}
TextInputs == {<<>>, <<"H", "i">>}

InitHistory ==
    [foreground |-> NoColor, background |-> NoColor,
     bold |-> NoFlag, dim |-> NoFlag, italic |-> NoFlag, underline |-> NoFlag,
     blink |-> NoFlag, reverse |-> NoFlag, hidden |-> NoFlag, strikethrough |-> NoFlag,
     link |-> NoLink]

Init ==
    /\ self = new
    /\ last = InitHistory
    /\ lastSetter = "new"
    /\ calls = 0
    /\ pc = "building"
    /\ out = NoOutput
    /\ text = <<>>
    /\ color = Reset
    /\ frag = NoOutput
    /\ rgb = Reset
    /\ twin = new
    /\ out2 = NoOutput

\* A setter call: the builder it returns and the history it leaves.
Set(setter, s, h) ==
    /\ pc # "panicked"
    /\ calls < MaxCalls
    /\ self' = s
    /\ last' = h
    /\ lastSetter' = setter
    /\ calls' = calls + 1
    /\ pc' = "building"
    /\ out' = NoOutput
    /\ text' = <<>>
    /\ UNCHANGED <<color, frag, rgb, twin, out2>>

Bold == \E yes \in BOOLEAN :
    Set("bold", bold(self, yes), [last EXCEPT !.bold = SomeFlag(yes)])
Dim == \E yes \in BOOLEAN :
    Set("dim", dim(self, yes), [last EXCEPT !.dim = SomeFlag(yes)])
Italic == \E yes \in BOOLEAN :
    Set("italic", italic(self, yes), [last EXCEPT !.italic = SomeFlag(yes)])
Underline == \E yes \in BOOLEAN :
    Set("underline", underline(self, yes), [last EXCEPT !.underline = SomeFlag(yes)])
Blink == \E yes \in BOOLEAN :
    Set("blink", blink(self, yes), [last EXCEPT !.blink = SomeFlag(yes)])
Reverse == \E yes \in BOOLEAN :
    Set("reverse", reverse(self, yes), [last EXCEPT !.reverse = SomeFlag(yes)])
Hidden == \E yes \in BOOLEAN :
    Set("hidden", hidden(self, yes), [last EXCEPT !.hidden = SomeFlag(yes)])
Strikethrough == \E yes \in BOOLEAN :
    Set("strikethrough", strikethrough(self, yes),
        [last EXCEPT !.strikethrough = SomeFlag(yes)])
Foreground == \E c \in ColorInputs :
    Set("foreground", foreground(self, c), [last EXCEPT !.foreground = SomeColor(c)])
Background == \E c \in ColorInputs :
    Set("background", background(self, c), [last EXCEPT !.background = SomeColor(c)])
Link == \E l \in LinkInputs :
    Set("link", link(self, l), [last EXCEPT !.link = SomeLink(l)])

\* render(&self, text): the builder is read, the result returned; a panic ends
\* the run.
Render == \E t \in TextInputs :
    /\ pc # "panicked"
    /\ out' = render(self, t)
    /\ pc' = IF out'.panicked THEN "panicked" ELSE "rendered"
    /\ text' = t
    /\ UNCHANGED <<self, last, lastSetter, calls, color, frag, rgb, twin, out2>>

Next ==
    \/ Bold \/ Dim \/ Italic \/ Underline \/ Blink \/ Reverse \/ Hidden \/ Strikethrough
    \/ Foreground \/ Background \/ Link \/ Render

Spec == Init /\ [][Next]_vars

---------------------------------------------------------------------------
(* One colour at a time, over a wide domain: the colour is drawn at the    *)
(* start, and to_ansi, the two colour setters and render act on it.  The   *)
(* history variables belong to Spec and stay as Init leaves them.          *)

ByteOrder == <<0, 255, 38, 48, 1, 16, 171, 128, 10, 9, 100, 254>>

ByteSamples ==
    {ByteOrder[i] : i \in 1..(IF NumByteSamples < Len(ByteOrder) THEN NumByteSamples
                              ELSE Len(ByteOrder))}

LowerHexDigits == <<"0", "1", "2", "3", "4", "5", "6", "7", "8", "9",
                    "a", "b", "c", "d", "e", "f">>
UpperHexDigits == <<"0", "1", "2", "3", "4", "5", "6", "7", "8", "9",
                    "A", "B", "C", "D", "E", "F">>

\* The two hex digits that write byte n, in upper or in lower case.
HexByte(n, upper) ==
    IF upper THEN <<UpperHexDigits[(n \div 16) + 1], UpperHexDigits[(n % 16) + 1]>>
    ELSE <<LowerHexDigits[(n \div 16) + 1], LowerHexDigits[(n % 16) + 1]>>

\* The payload #RRGGBB of (r, g, b); ups[i] is the case of channel i.
HexPayload(r, g, b, ups) ==
    <<"#">> \o HexByte(r, ups[1]) \o HexByte(g, ups[2]) \o HexByte(b, ups[3])

CaseChoices == [1..3 -> BOOLEAN]
UniformCases == {<<TRUE, TRUE, TRUE>>, <<FALSE, FALSE, FALSE>>}

PayloadAlphabet == {"#", "0", "f", "F", "g", "+", EAcute}

\* Every string over the alphabet of length at most n.
StringsUpTo(n) == UNION {[1..k -> PayloadAlphabet] : k \in 0..n}

\* Payloads longer than #RRGGBB, or without the leading #.
OtherPayloads ==
    {<<"#", "F", "F", "F", "F">>,
     <<"#", "F", "F", "F", "F", "F", "F", "F", "F">>,
     <<"#", "F", "F", "F", "F", "F", "F", "F", "F", "F">>,
     <<"#", "0", "0", "0", "0", "0", "0", "0", "0", "0", "F", "F">>,
     <<"#", "1", "0", "0", "0", "0", "0", "0", "0", "0">>,
     <<"x", "f", "f", "0", "0", "0", "0">>,
     <<"#", "f", "f", "0", "0", "0", "g">>,
     <<"#", "-", "f", "0", "0", "0", "0">>,
     <<"#", "+", "f", "f", "0", "0", "0">>,
     <<"#", "f", "f", " ", "0", "0", "0">>,
     <<"#", "f", "f", EAcute, "0", "0", "0">>}

HexPayloads ==
    StringsUpTo(MaxPayloadLen)
    \cup {HexPayload(r, g, b, ups) : r \in ByteSamples, g \in ByteSamples, b \in ByteSamples,
                                     ups \in UniformCases}
    \cup OtherPayloads

ColorDomain ==
    {Reset} \cup {Named(tg) : tg \in NamedTags}
    \cup {C256(n) : n \in ByteSamples}
    \cup {Rgb(r, g, b) : r \in ByteSamples, g \in ByteSamples, b \in ByteSamples}
    \cup {Hex(s) : s \in HexPayloads}

InitColor ==
    /\ self = new
    /\ last = InitHistory
    /\ lastSetter = "new"
    /\ calls = 0
    /\ pc = "building"
    /\ out = NoOutput
    /\ text = <<>>
    /\ color \in ColorDomain
    /\ frag = NoOutput
    /\ rgb = Reset
    /\ twin = new
    /\ out2 = NoOutput

\* color.to_ansi(), called on its own.
ToAnsi ==
    /\ pc # "panicked"
    /\ frag' = to_ansi(color)
    /\ pc' = IF frag'.panicked THEN "panicked" ELSE pc
    /\ UNCHANGED <<self, last, lastSetter, calls, out, text, color, rgb, twin, out2>>

ColorForeground ==
    /\ pc # "panicked"
    /\ self' = foreground(self, color)
    /\ pc' = "building"
    /\ out' = NoOutput
    /\ text' = <<>>
    /\ UNCHANGED <<last, lastSetter, calls, color, frag, rgb, twin, out2>>

ColorBackground ==
    /\ pc # "panicked"
    /\ self' = background(self, color)
    /\ pc' = "building"
    /\ out' = NoOutput
    /\ text' = <<>>
    /\ UNCHANGED <<last, lastSetter, calls, color, frag, rgb, twin, out2>>

ColorRender == \E t \in TextInputs :
    /\ pc # "panicked"
    /\ out' = render(self, t)
    /\ pc' = IF out'.panicked THEN "panicked" ELSE "rendered"
    /\ text' = t
    /\ UNCHANGED <<self, last, lastSetter, calls, color, frag, rgb, twin, out2>>

NextColor == ToAnsi \/ ColorForeground \/ ColorBackground \/ ColorRender

SpecColor == InitColor /\ [][NextColor]_vars

---------------------------------------------------------------------------
(* Two builders side by side: self is given Hex("#RRGGBB") wherever twin   *)
(* is given Rgb(r, g, b), and every other call is made on both.            *)

InitTwin ==
    /\ self = new
    /\ last = InitHistory
    /\ lastSetter = "new"
    /\ calls = 0
    /\ pc = "building"
    /\ out = NoOutput
    /\ text = <<>>
    /\ \E r \in ByteSamples, g \in ByteSamples, b \in ByteSamples, ups \in CaseChoices :
          /\ rgb = Rgb(r, g, b)
          /\ color = Hex(HexPayload(r, g, b, ups))
    /\ frag = NoOutput
    /\ twin = new
    /\ out2 = NoOutput

\* A call made on both builders: the builders it returns.
SetBoth(s, s2) ==
    /\ pc # "panicked"
    /\ self' = s
    /\ twin' = s2
    /\ pc' = "building"
    /\ out' = NoOutput
    /\ out2' = NoOutput
    /\ text' = <<>>
    /\ UNCHANGED <<last, lastSetter, calls, color, frag, rgb>>

TwinForeground == SetBoth(foreground(self, color), foreground(twin, rgb))
TwinBackground == SetBoth(background(self, color), background(twin, rgb))
TwinBold == \E yes \in BOOLEAN : SetBoth(bold(self, yes), bold(twin, yes))
TwinLink == \E l \in LinkInputs : SetBoth(link(self, l), link(twin, l))

TwinRender == \E t \in TextInputs :
    /\ pc # "panicked"
    /\ out' = render(self, t)
    /\ out2' = render(twin, t)
    /\ pc' = IF out'.panicked \/ out2'.panicked THEN "panicked" ELSE "rendered"
    /\ text' = t
    /\ UNCHANGED <<self, twin, last, lastSetter, calls, color, frag, rgb>>

NextTwin == TwinForeground \/ TwinBackground \/ TwinBold \/ TwinLink \/ TwinRender

SpecTwin == InitTwin /\ [][NextTwin]_vars

---------------------------------------------------------------------------
(* Reading a rendered string.                                              *)

StartsWith(seq, pat) == Len(seq) >= Len(pat) /\ SubSeq(seq, 1, Len(pat)) = pat

Contains(seq, pat) ==
    \E i \in 1..(Len(seq) - Len(pat) + 1) : SubSeq(seq, i, i + Len(pat) - 1) = pat

\* The rendered string without the hyperlink wrapper that the latest link call
\* asks for: ESC ]8;; <link> ESC \ in front, ESC ]8;; ESC \ behind.
StripLink(o) ==
    IF last.link.some THEN SubSeq(o, Len(last.link.val) + 8, Len(o) - 7) ELSE o

\* The parameter list of an SGR string ESC [ <params> m ...: what stands between
\* ESC [ and the first m (a parameter list holds digits and ';' only).
ParamsOf(sgrText) ==
    LET m == CHOOSE i \in 3..Len(sgrText) :
                 /\ sgrText[i] = "m"
                 /\ \A j \in 3..(i - 1) : sgrText[j] # "m"
    IN SubSeq(sgrText, 3, m - 1)

\* The parameter list of the latest render.
Params == ParamsOf(StripLink(out.val))

RECURSIVE SemiJoin(_)
\* Fragments written one after the other with a ';' between neighbours.
SemiJoin(fs) ==
    IF fs = <<>> THEN <<>>
    ELSE IF Len(fs) = 1 THEN fs[1]
    ELSE fs[1] \o <<";">> \o SemiJoin(Tail(fs))

HexDigitChars == {LowerHexDigits[i] : i \in 1..16} \cup {UpperHexDigits[i] : i \in 1..16}

\* '#' followed by exactly six hex digits.
WellFormedHex(s) ==
    /\ Len(s) = 7
    /\ s[1] = "#"
    /\ \A i \in 2..7 : s[i] \in HexDigitChars

Black000 == Ok(<<"2", ";", "0", ";", "0", ";", "0">>)

---------------------------------------------------------------------------
(* The claims.                                                             *)

\* The fragments C1 expects, in the fixed order: the colours by whether their
\* setter was ever called, the flags by their current value.
C1_Expected ==
    (IF last.foreground.some THEN <<apply_foreground(self).val>> ELSE <<>>)
    \o (IF last.background.some THEN <<apply_background(self).val>> ELSE <<>>)
    \o (IF self.bold THEN <<(<<"1">>)>> ELSE <<>>)
    \o (IF self.dim THEN <<(<<"2">>)>> ELSE <<>>)
    \o (IF self.italic THEN <<(<<"3">>)>> ELSE <<>>)
    \o (IF self.underline THEN <<(<<"4">>)>> ELSE <<>>)
    \o (IF self.blink THEN <<(<<"5">>)>> ELSE <<>>)
    \o (IF self.reverse THEN <<(<<"7">>)>> ELSE <<>>)
    \o (IF self.hidden THEN <<(<<"8">>)>> ELSE <<>>)
    \o (IF self.strikethrough THEN <<(<<"9">>)>> ELSE <<>>)

\* C1: whatever the order of the setter calls, the parameter list render
\* produces is the fragments foreground, background, bold, dim, italic,
\* underline, blink, reverse, hidden, strikethrough in this order, a colour
\* present iff its setter was ever called, a flag iff it is currently true.
C1_FragmentOrder ==
    pc = "rendered" => Params = SemiJoin(C1_Expected)

\* C1's case: bold, foreground and background were called, background last,
\* and render returned.
C1_Witness ==
    /\ pc = "rendered"
    /\ calls = 3
    /\ lastSetter = "background"
    /\ last.foreground.some
    /\ self.bold
    /\ Len(C1_Expected) = 3

\* C2: a Hex payload that is not '#' and six hex digits converts to (0,0,0),
\* the fragment "2;0;0;0".  (Stated of the conversions that return: a payload
\* on which the conversion panics is C3's matter.)
C2_MalformedHexIsBlack ==
    (frag # NoOutput /\ ~frag.panicked /\ color.tag = "Hex" /\ ~WellFormedHex(color.s))
        => frag = Black000

\* C3: render returns a string for every builder and every text; nothing panics.
C3_RenderTotal ==
    pc # "panicked" /\ ~out.panicked

\* C4 as stated: the fragment to_ansi returns contains neither "38;" nor "48;".
C4_NoPrefixTokenAnywhere ==
    (frag # NoOutput /\ ~frag.panicked) =>
        /\ ~Contains(frag.val, <<"3", "8", ";">>)
        /\ ~Contains(frag.val, <<"4", "8", ";">>)

\* C4, amended: the fragment to_ansi returns never starts with the selector
\* prefix "38;" or "48;" (a colour component may still read 38 or 48 further in).
C4_NoSelectorPrefix ==
    (frag # NoOutput /\ ~frag.panicked) =>
        /\ ~StartsWith(frag.val, <<"3", "8", ";">>)
        /\ ~StartsWith(frag.val, <<"4", "8", ";">>)

\* C4's case: to_ansi returned the fragment of Rgb(38, 48, 0).
C4_Witness ==
    /\ color = Rgb(38, 48, 0)
    /\ frag = Ok(<<"2", ";", "3", "8", ";", "4", "8", ";", "0">>)

\* The foreground code of a named colour: 30..37 for Black..White, 90..97 for
\* BrightBlack..BrightWhite.
C5_ForegroundCode(tg) ==
    LET i == CHOOSE k \in 1..Len(NamedOrder) : NamedOrder[k] = tg
    IN IF i <= 8 THEN 29 + i ELSE 81 + i

\* The background fragment C5 expects of colour c.
C5_Expected(c) ==
    IF c.tag \in NamedTags THEN ToDec(C5_ForegroundCode(c.tag) + 10)
    ELSE IF c.tag = "Reset" THEN <<"0">>
    ELSE <<"4", "8", ";">> \o to_ansi(c).val

\* C5: the background fragment render emits is the named colour's foreground
\* code plus 10, unprefixed; "0" for Reset; "48;" and the colour's fragment for
\* C256, Rgb and Hex.
C5_BackgroundFragment ==
    (pc = "rendered" /\ self.background.some) =>
        Params = SemiJoin((IF self.foreground.some THEN <<apply_foreground(self).val>>
                           ELSE <<>>)
                          \o <<C5_Expected(self.background.val)>>)

\* C5's case: BrightWhite as the only colour, rendered as 107.
C5_Witness ==
    /\ pc = "rendered"
    /\ self.background = SomeColor(Named("BrightWhite"))
    /\ ~self.foreground.some
    /\ Params = <<"1", "0", "7">>

\* The builder that the latest argument of each setter describes; a flag
\* whose setter was never called is false.
FromHistory(h) ==
    [foreground |-> h.foreground, background |-> h.background,
     bold |-> h.bold.some /\ h.bold.val,
     dim |-> h.dim.some /\ h.dim.val,
     italic |-> h.italic.some /\ h.italic.val,
     underline |-> h.underline.some /\ h.underline.val,
     blink |-> h.blink.some /\ h.blink.val,
     reverse |-> h.reverse.some /\ h.reverse.val,
     hidden |-> h.hidden.some /\ h.hidden.val,
     strikethrough |-> h.strikethrough.some /\ h.strikethrough.val,
     link |-> h.link]

\* C6: last call wins: what render returns is decided by the latest argument
\* of each setter alone, and a flag last set to false renders as a flag never
\* set.
C6_LastCallWins ==
    pc \in {"rendered", "panicked"} => out = render(FromHistory(last), text)

\* C6's case: bold was called twice, last with false, and render returned the
\* empty parameter list.
C6_Witness ==
    /\ pc = "rendered"
    /\ calls = 2
    /\ last.bold = SomeFlag(FALSE)
    /\ \A f \in Fields \ {"bold"} : ~last[f].some
    /\ Params = <<>>

\* C7: a setter changes its own field and no other, and a field differs from
\* new() only if its own setter was called.
C7_SetterFrame ==
    /\ [](\A f \in Fields : self[f] # new[f] => last[f].some)
    /\ [][calls' = calls + 1 =>
             \A f \in Fields \ {lastSetter'} : self'[f] = self[f]]_vars

\* C7's case: three setters were called, link last, and the fields the first
\* two set still hold.
C7_Witness ==
    /\ calls = 3
    /\ lastSetter = "link"
    /\ self.foreground = SomeColor(Named("Red"))
    /\ self.bold
    /\ self.link = SomeLink(<<"u">>)

\* What C8 expects render to return, unlinked being what render returns for the
\* same builder without a link: the same failure, or its string, inside the
\* wrapper when link was ever called.
C8_Expected(unlinked) ==
    IF unlinked.panicked THEN Panic
    ELSE IF last.link.some
    THEN Ok(<<ESC, "]", "8", ";", ";">> \o last.link.val \o <<ESC, "\\">>
            \o unlinked.val \o <<ESC, "]", "8", ";", ";", ESC, "\\">>)
    ELSE unlinked

\* C8: once link was called, render returns ESC ]8;; <link> ESC \ then the
\* SGR result then ESC ]8;; ESC \, <link> the latest link argument (the empty
\* string too) and the SGR result what render returns for the same builder
\* without a link; if link was never called, render returns the SGR result.
C8_LinkWrapper ==
    pc \in {"rendered", "panicked"} =>
        out = C8_Expected(render([self EXCEPT !.link = NoLink], text))

\* C8's case: link was called with the empty string, another setter after it,
\* and render returned.
C8_Witness ==
    /\ pc = "rendered"
    /\ last.link = SomeLink(<<>>)
    /\ lastSetter = "bold"
    /\ self.bold
    /\ text = <<"H", "i">>

\* C9: a builder with Hex("#RRGGBB") as foreground and/or background renders
\* the same string as the same builder with Rgb(r, g, b) there, the digits in
\* upper or in lower case.
C9_HexEqualsRgb ==
    /\ pc # "panicked"
    /\ pc = "rendered" => out = out2

\* C9's case: Hex("#ff0000") as foreground and background, rendered.
C9_Witness ==
    /\ pc = "rendered"
    /\ color = Hex(<<"#", "f", "f", "0", "0", "0", "0">>)
    /\ self.foreground = SomeColor(color)
    /\ self.background = SomeColor(color)
    /\ twin.foreground = SomeColor(Rgb(255, 0, 0))

\* C10, amended: the parameter list has no dangling separator (no leading ';',
\* no trailing ';', no ';;'); it is empty exactly when no colour setter was
\* ever called and all eight flags are false, and the SGR sequence is then
\* ESC [ m text ESC [ 0 m: all of render(text) if link was never called, what
\* the hyperlink wrapper encloses otherwise.
C10_NoDanglingSeparators ==
    pc = "rendered" =>
        /\ ~StartsWith(Params, <<";">>)
        /\ (Params # <<>> => Params[Len(Params)] # ";")
        /\ ~Contains(Params, <<";", ";">>)
        /\ (Params = <<>>) <=>
              (/\ ~last.foreground.some
               /\ ~last.background.some
               /\ \A f \in FlagFields : ~self[f])
        /\ (Params = <<>>) =>
              StripLink(out.val) = <<ESC, "[", "m">> \o text \o <<ESC, "[", "0", "m">>

\* C10 as stated: whenever the parameter list is empty, render(text) is
\* ESC [ m text ESC [ 0 m.
C10_EmptyListIsBareSgr ==
    (pc = "rendered" /\ Params = <<>>) =>
        out.val = <<ESC, "[", "m">> \o text \o <<ESC, "[", "0", "m">>

\* C10's case: an extended foreground colour and two flags, rendered as
\* 38;2;255;0;0;4;9.
C10_Witness ==
    /\ pc = "rendered"
    /\ self.foreground = SomeColor(Rgb(255, 0, 0))
    /\ self.underline
    /\ self.strikethrough
    /\ Params = <<"3", "8", ";", "2", ";", "2", "5", "5", ";", "0", ";", "0", ";", "4",
                  ";", "9">>

====
